---- MODULE Spec2Model ----
(***************************************************************************)
(* Invoice approval and posting pipeline of coplane_public_demo.           *)
(*                                                                         *)
(* Two workflows are modelled, each run being one invocation of one of     *)
(* them:                                                                   *)
(*   process_invoice              (app/flows/process_invoice.py)           *)
(*   process_invoice_with_entity  (app/flows/process_invoice_with_entity.py)*)
(*                                                                         *)
(* Amounts are Python floats.  A finite float is modelled by an integer    *)
(* number of hundredths of a currency unit (so 1000 is 100000 and the      *)
(* tolerance 0.01 is 1); the only arithmetic the code performs on amounts  *)
(* is 0 + x + 0.0 and x - x, which IEEE-754 computes exactly.  The         *)
(* non-finite floats inf and nan, which the pydantic type `float` accepts, *)
(* are modelled as values of their own (nan arises as inf - inf).          *)
(***************************************************************************)
EXTENDS Integers, Sequences, FiniteSets, TLC

\* ------------------------------------------------------------------ bounds
\* Number of concurrent workflow runs.
NumRuns == 2
Runs == 1..NumRuns
\* Number of calls made on one ledger client instance.
MaxClientCalls == 3

\* ------------------------------------------------------- program constants
\* RuleInput(amount=invoice.amount, threshold=1000), in hundredths.
Threshold == 100000
\* auto_approve of process_invoice_with_entity: input.amount < 1000.
EntityThreshold == 100000
\* is_balanced: abs(total_debits - total_credits) < 0.01, in hundredths.
Epsilon == 1
\* MockGeneralLedgerClient.__init__: self.entry_counter = 1000.
InitialEntryCounter == 1000

\* ------------------------------------------------------------------ floats
Fin(n) == [k |-> "fin", v |-> n]
PosInf == [k |-> "inf", v |-> 1]
NegInf == [k |-> "inf", v |-> -1]
NaN == [k |-> "nan", v |-> 0]

\* a < b on floats: false as soon as one side is nan.
FLt(a, b) ==
    /\ a.k # "nan"
    /\ b.k # "nan"
    /\ \/ a.k = "fin" /\ b.k = "fin" /\ a.v < b.v
       \/ a.k = "fin" /\ b = PosInf
       \/ a = NegInf /\ b.k = "fin"
       \/ a = NegInf /\ b = PosInf

\* a > b on floats.
FGt(a, b) == FLt(b, a)

\* a + b on floats: inf + (-inf) is nan.
FAdd(a, b) ==
    IF a.k = "nan" \/ b.k = "nan" THEN NaN
    ELSE IF a.k = "inf" /\ b.k = "inf" THEN (IF a.v = b.v THEN a ELSE NaN)
    ELSE IF a.k = "inf" THEN a
    ELSE IF b.k = "inf" THEN b
    ELSE Fin(a.v + b.v)

FNeg(a) == IF a.k = "nan" THEN NaN ELSE [k |-> a.k, v |-> 0 - a.v]

\* a - b on floats: inf - inf is nan.
FSub(a, b) == FAdd(a, FNeg(b))

\* abs(a) on floats.
FAbs(a) == IF a.k = "nan" THEN NaN ELSE IF a.v < 0 THEN FNeg(a) ELSE a

\* sum(...) over a sequence of floats, starting from 0.
RECURSIVE FSum(_)
FSum(s) == IF s = <<>> THEN Fin(0) ELSE FAdd(FSum(SubSeq(s, 1, Len(s) - 1)), s[Len(s)])

\* ------------------------------------------------------------- input data
Flows == {"process_invoice", "process_invoice_with_entity"}

Vendors == {"Acme"}
InvoiceNumbers == {"INV-1", "INV-2"}
InvoiceDates == {"20251105"}
Descriptions == {"Office supplies"}

\* The values a float field `amount` is drawn from: a negative amount, zero,
\* the amounts just below and at the threshold, and a non-finite one.
Amounts == {Fin(0 - 1), Fin(0), Fin(Threshold - 1), Fin(Threshold), PosInf}

\* class InvoiceData (the uploaded file reference is carried along unchanged
\* and is left out).
InvoiceData ==
    [vendor : Vendors, amount : Amounts, description : Descriptions,
     invoice_date : InvoiceDates, invoice_number : InvoiceNumbers]

\* class InvoiceDataReviewed(InvoiceData): approved: bool.
InvoiceDataReviewed ==
    [vendor : Vendors, amount : Amounts, description : Descriptions,
     invoice_date : InvoiceDates, invoice_number : InvoiceNumbers,
     approved : BOOLEAN]

\* InvoiceDataReviewed(approved=a, **invoice.model_dump())
WithApproved(invoice, a) ==
    [vendor |-> invoice.vendor, amount |-> invoice.amount,
     description |-> invoice.description, invoice_date |-> invoice.invoice_date,
     invoice_number |-> invoice.invoice_number, approved |-> a]

\* Values standing for "nothing there yet" / Python None.
NoInvoice == [none |-> "invoice"]
NoEntry == [none |-> "journal_entry"]
NoResponse == [none |-> "response"]
NoWorkbook == <<>>
NoOutcome == [none |-> "outcome"]
None == [none |-> "None"]

\* The invoice table as the duplicate check queries it: rows with an
\* invoice_number column (app/db/entities.py declares vendor and amount only;
\* the query of verify_unique_invoice_step selects on invoice_number).
InvoiceRow(n) == [entity |-> "Invoice", invoice_number |-> n]
StoredNumbers == {"INV-1"}

\* ------------------------------------------------------------------- state
VARIABLES
    flow,          \* run -> the workflow the run executes
    pc,            \* run -> pipeline state
    invoice,       \* run -> the invoice flowing through the pipeline
    ruleResult,    \* run -> outcome of the approval rule
    reviewResult,  \* run -> outcome of the human review
    journalEntry,  \* run -> the journal entry of write_invoice_to_general_ledger
    glResponse,    \* run -> the GLApiResponse of the run's posting
    exportCalls,   \* run -> number of create_journal_entry_excel calls
    postCalls,     \* run -> number of post_journal_entry calls
    returned,      \* run -> <<value>> returned by the workflow, <<>> before
    error,         \* run -> message of the exception that ended the run
    store,         \* rows of the invoice table
    uniqueVerdict, \* run -> verdict of verify_unique_invoice_step
    reviewOutput,  \* run -> the reviewed invoice human_review handed back
    glClient,      \* a ledger client instance that is kept across calls
    glCalls,       \* number of post_journal_entry calls made on glClient
    glRejected,    \* number of those calls answered with success=False
    glEntry,       \* the entry of the last call on glClient
    glLast,        \* the response to the last call on glClient
    glOutcome,     \* what the caller made of that response
    glIssued       \* the entry ids glClient has handed out, in order

pipelineVars ==
    <<flow, pc, invoice, ruleResult, reviewResult, journalEntry, glResponse,
      exportCalls, postCalls, returned, error, store, uniqueVerdict, reviewOutput>>

ledgerVars ==
    <<glClient, glCalls, glRejected, glEntry, glLast, glOutcome, glIssued>>

vars == <<pipelineVars, ledgerVars>>


\* ---------------------------------------------------------- approval rules
\* Variant of auto_approver: the comparison written as <=.
auto_approver_inclusive(input) ==
    [approved |-> FLt(input.amount, input.threshold) \/ input.amount = input.threshold,
     reason |-> <<"Amount is under $", input.threshold>>]

\* process_invoice.auto_approver: approved = input.amount < input.threshold.
auto_approver(input) ==
    [approved |-> FLt(input.amount, input.threshold),
     reason |-> <<"Amount is under $", input.threshold>>]

\* process_invoice_with_entity.auto_approve: approved = input.amount < 1000.
auto_approve(input) ==
    [approved |-> FLt(input.amount, Fin(EntityThreshold)),
     reason |-> <<"Amount is under $1000">>]

\* bool(x): False for None, True for a pydantic model instance.
Truthy(value) == value # None

\* ------------------------------------------------- process_invoice: step 2
\* Variant of maybe_approve_rule: every invoice is sent to the reviewer.
maybe_approve_rule_always_review(inv) ==
    LET auto_approve_result ==
            auto_approver([amount |-> inv.amount, threshold |-> Fin(Threshold)])
    IN  [kind |-> "await_human", rule |-> auto_approve_result, value |-> inv]

\* maybe_approve up to the await of human_review.
maybe_approve_rule(inv) ==
    LET auto_approve_result ==
            auto_approver([amount |-> inv.amount, threshold |-> Fin(Threshold)])
    IN  IF auto_approve_result.approved
        THEN [kind |-> "return", rule |-> auto_approve_result,
              value |-> WithApproved(inv, TRUE)]
        ELSE [kind |-> "await_human", rule |-> auto_approve_result,
              value |-> inv]

\* Variant of maybe_approve_resume: the reviewer's output is returned without
\* looking at its approved flag.
maybe_approve_resume_unchecked(output) ==
    [kind |-> "return", value |-> output, error |-> <<>>]

\* Variant of maybe_approve_resume: a rejected invoice yields None instead of
\* an exception.
maybe_approve_resume_silent(output) ==
    IF output.approved
    THEN [kind |-> "return", value |-> output, error |-> <<>>]
    ELSE [kind |-> "return", value |-> None, error |-> <<>>]

\* maybe_approve from the resumption of human_review with its output.
maybe_approve_resume(output) ==
    IF output.approved
    THEN [kind |-> "return", value |-> output, error |-> <<>>]
    ELSE [kind |-> "raise", value |-> output,
          error |-> <<"Invoice was not approved by human reviewer">>]

\* ------------------------------------------------- process_invoice: step 3
\* Variant of BuildJournalEntry: the credit is written on the expense line.
BuildJournalEntry_same_line(inv) ==
    [entry_date |-> inv.invoice_date,
     invoice_number |-> inv.invoice_number,
     vendor |-> inv.vendor,
     description |-> <<"Invoice from ", inv.vendor, " - Invoice #", inv.invoice_number>>,
     lines |-> << [account_name |-> <<"Office Supplies Expense">>,
                   debit |-> inv.amount, credit |-> inv.amount],
                  [account_name |-> <<"Accounts Payable - ", inv.vendor>>,
                   debit |-> Fin(0), credit |-> Fin(0)] >>,
     workbook |-> NoWorkbook]

\* The JournalEntry constructed by write_invoice_to_general_ledger.
BuildJournalEntry(inv) ==
    [entry_date |-> inv.invoice_date,
     invoice_number |-> inv.invoice_number,
     vendor |-> inv.vendor,
     description |-> <<"Invoice from ", inv.vendor, " - Invoice #", inv.invoice_number>>,
     lines |-> << [account_name |-> <<"Office Supplies Expense">>,
                   debit |-> inv.amount, credit |-> Fin(0)],
                  [account_name |-> <<"Accounts Payable - ", inv.vendor>>,
                   debit |-> Fin(0), credit |-> inv.amount] >>,
     workbook |-> NoWorkbook]

\* line.debit for line in self.lines
Debits(je) == [i \in 1..Len(je.lines) |-> je.lines[i].debit]
\* line.credit for line in self.lines
Credits(je) == [i \in 1..Len(je.lines) |-> je.lines[i].credit]

\* Variant of is_balanced: written as not (abs(...) >= 0.01), which a nan
\* difference passes.
is_balanced_negated(je) ==
    LET total_debits == FSum(Debits(je))
        total_credits == FSum(Credits(je))
        diff == FAbs(FSub(total_debits, total_credits))
    IN  ~(FLt(Fin(Epsilon), diff) \/ diff = Fin(Epsilon))

\* JournalEntry.is_balanced
is_balanced(je) ==
    LET total_debits == FSum(Debits(je))
        total_credits == FSum(Credits(je))
    IN  FLt(FAbs(FSub(total_debits, total_credits)), Fin(Epsilon))

\* create_journal_entry_excel: the PlanarFile it uploads, named after the entry.
create_journal_entry_excel(je) ==
    <<"journal_entry_", je.invoice_number, "_", je.entry_date, ".xlsx">>

\* MockGeneralLedgerClient(): a fresh client.
MockGeneralLedgerClient == [entry_counter |-> InitialEntryCounter]

\* Variant of post_journal_entry: the counter is advanced before the entry is
\* validated.
post_journal_entry_counts_first(client, je) ==
    LET counter == client.entry_counter + 1
    IN  IF ~is_balanced(je)
        THEN [client |-> [entry_counter |-> counter],
              response |-> [success |-> FALSE, entry_id |-> <<>>,
                            message |-> <<"Journal entry is not balanced">>]]
        ELSE [client |-> [entry_counter |-> counter],
              response |-> [success |-> TRUE, entry_id |-> <<"JE-", counter>>,
                            message |-> <<"Journal entry posted successfully for vendor ",
                                          je.vendor>>]]

\* Variant of post_journal_entry: the validation is left out.
post_journal_entry_unvalidated(client, je) ==
    LET counter == client.entry_counter + 1
    IN  [client |-> [entry_counter |-> counter],
         response |-> [success |-> TRUE, entry_id |-> <<"JE-", counter>>,
                       message |-> <<"Journal entry posted successfully for vendor ",
                                     je.vendor>>]]

\* Variant of post_journal_entry: the id is formatted from the counter but
\* the counter is not stored back.
post_journal_entry_counter_kept(client, je) ==
    IF ~is_balanced(je)
    THEN [client |-> client,
          response |-> [success |-> FALSE, entry_id |-> <<>>,
                        message |-> <<"Journal entry is not balanced">>]]
    ELSE [client |-> client,
          response |-> [success |-> TRUE,
                        entry_id |-> <<"JE-", client.entry_counter + 1>>,
                        message |-> <<"Journal entry posted successfully for vendor ",
                                      je.vendor>>]]

\* MockGeneralLedgerClient.post_journal_entry: the response and the client
\* after the call (the timestamp of the response is left out).
post_journal_entry(client, je) ==
    IF ~is_balanced(je)
    THEN [client |-> client,
          response |-> [success |-> FALSE, entry_id |-> <<>>,
                        message |-> <<"Journal entry is not balanced">>]]
    ELSE LET counter == client.entry_counter + 1
         IN  [client |-> [entry_counter |-> counter],
              response |-> [success |-> TRUE, entry_id |-> <<"JE-", counter>>,
                            message |-> <<"Journal entry posted successfully for vendor ",
                                          je.vendor>>]]

\* Variant of check_api_response: the exception does not quote the ledger.
check_api_response_generic(api_response, journal_entry) ==
    IF ~api_response.success
    THEN [kind |-> "raise", value |-> None,
          error |-> <<"Failed to post journal entry">>]
    ELSE [kind |-> "return", value |-> journal_entry, error |-> <<>>]

\* write_invoice_to_general_ledger after the post: raises on success=False,
\* returns the journal entry otherwise.
check_api_response(api_response, journal_entry) ==
    IF ~api_response.success
    THEN [kind |-> "raise", value |-> None,
          error |-> <<"Failed to post journal entry: ">> \o api_response.message]
    ELSE [kind |-> "return", value |-> journal_entry, error |-> <<>>]

\* -------------------------------------- process_invoice_with_entity: step 2
\* session.exec(select(Invoice).where(Invoice.invoice_number == n)): the rows
\* not yet fetched from the result.
session_exec(st, n) == {row \in st : row.invoice_number = n}

\* result.all(): fetches every remaining row and leaves the result exhausted.
ResultAll(result) == [rows |-> result, remaining |-> {}]

\* str == Invoice: a string never equals a row object.
StrEqualsRow(s, row) == FALSE

\* x in result: iterates the rows still to be fetched and compares x to each.
InResult(s, result) == \E row \in result : StrEqualsRow(s, row)

\* Variant of verify_unique_invoice_step: a number is also taken for a
\* duplicate when another run has passed the check with it.
verify_unique_invoice_step_reserving(inv, st) ==
    IF \/ inv.invoice_number \in {row.invoice_number : row \in st}
       \/ \E r \in Runs : /\ uniqueVerdict[r] = "Unique"
                           /\ invoice[r].invoice_number = inv.invoice_number
    THEN [approved |-> FALSE,
          reason |-> <<"Invoice number ", inv.invoice_number, " is a duplicate">>]
    ELSE [approved |-> TRUE,
          reason |-> <<"Invoice number ", inv.invoice_number, " is NOT a duplicate">>]

\* verify_unique_invoice_step
verify_unique_invoice_step(inv, st) ==
    LET historical_invoice_numbers == session_exec(st, inv.invoice_number)
        printed == ResultAll(historical_invoice_numbers)
    IN  IF InResult(inv.invoice_number, printed.remaining)
        THEN [approved |-> FALSE,
              reason |-> <<"Invoice number ", inv.invoice_number, " is a duplicate">>]
        ELSE [approved |-> TRUE,
              reason |-> <<"Invoice number ", inv.invoice_number, " is NOT a duplicate">>]

\* Variant of verify_unique_invoice_store: the step records the number it
\* checked.
verify_unique_invoice_store_recording(inv, st) ==
    st \cup {InvoiceRow(inv.invoice_number)}

\* The invoice table after verify_unique_invoice_step: its transaction holds
\* a select only and commits no change.
verify_unique_invoice_store(inv, st) == st

\* -------------------------------------- process_invoice_with_entity: step 3
entity_maybe_approve_rule(inv) ==
    LET auto_approve_result == auto_approve([amount |-> inv.amount])
    IN  IF auto_approve_result.approved
        THEN [kind |-> "return", rule |-> auto_approve_result, value |-> inv]
        ELSE [kind |-> "await_human", rule |-> auto_approve_result, value |-> inv]


\* the entity Invoice as process_invoice_with_entity uses it.
EntityInvoice ==
    [vendor : Vendors, amount : Amounts, invoice_number : InvoiceNumbers]

\* maybe_approve of process_invoice_with_entity from the resumption of
\* human_review: returns the reviewer's output as it is.
entity_maybe_approve_resume(output) ==
    [kind |-> "return", value |-> output, error |-> <<>>]

\* ----------------------------------------------------------------- actions
Init ==
    /\ flow \in [Runs -> Flows]
    /\ pc = [r \in Runs |-> "Extracting"]
    /\ invoice = [r \in Runs |-> NoInvoice]
    /\ ruleResult = [r \in Runs |-> "NotEvaluated"]
    /\ reviewResult = [r \in Runs |-> "NotReviewed"]
    /\ journalEntry = [r \in Runs |-> NoEntry]
    /\ glResponse = [r \in Runs |-> NoResponse]
    /\ exportCalls = [r \in Runs |-> 0]
    /\ postCalls = [r \in Runs |-> 0]
    /\ returned = [r \in Runs |-> <<>>]
    /\ error = [r \in Runs |-> <<>>]
    /\ store = {InvoiceRow(n) : n \in StoredNumbers}
    /\ uniqueVerdict = [r \in Runs |-> "NotChecked"]
    /\ reviewOutput = [r \in Runs |-> NoInvoice]
    /\ glClient = MockGeneralLedgerClient
    /\ glCalls = 0
    /\ glRejected = 0
    /\ glEntry = NoEntry
    /\ glLast = NoResponse
    /\ glOutcome = NoOutcome
    /\ glIssued = <<>>

RuleOutcome(rule) == IF rule.approved THEN "Approved" ELSE "Denied"

\* step extract_invoice: the agent returns a typed invoice.
ExtractInvoice(r) ==
    /\ pc[r] = "Extracting"
    /\ \E inv \in (IF flow[r] = "process_invoice" THEN InvoiceData ELSE EntityInvoice) :
           invoice' = [invoice EXCEPT ![r] = inv]
    /\ pc' = [pc EXCEPT ![r] =
                 IF flow[r] = "process_invoice" THEN "Approving" ELSE "DuplicateCheck"]
    /\ UNCHANGED <<flow, ruleResult, reviewResult, journalEntry, glResponse,
                   exportCalls, postCalls, returned, error, store, uniqueVerdict,
                   reviewOutput>>
    /\ UNCHANGED ledgerVars

\* step extract_invoice: the agent call raises; the exception ends the run.
ExtractInvoiceFails(r) ==
    /\ pc[r] = "Extracting"
    /\ pc' = [pc EXCEPT ![r] = "Failed"]
    /\ error' = [error EXCEPT ![r] = <<"ExtractionFailed">>]
    /\ UNCHANGED <<flow, invoice, ruleResult, reviewResult, journalEntry, glResponse,
                   exportCalls, postCalls, returned, store, uniqueVerdict,
                   reviewOutput>>
    /\ UNCHANGED ledgerVars

\* process_invoice: maybe_approve up to its return or its suspension, and the
\* workflow's `if invoice_approved:`.
MaybeApprove(r) ==
    /\ flow[r] = "process_invoice"
    /\ pc[r] = "Approving"
    /\ LET out == maybe_approve_rule(invoice[r])
       IN  /\ ruleResult' = [ruleResult EXCEPT ![r] = RuleOutcome(out.rule)]
           /\ invoice' = [invoice EXCEPT ![r] = out.value]
           /\ pc' = [pc EXCEPT ![r] =
                        IF out.kind = "await_human" THEN "AwaitingHumanReview"
                        ELSE IF Truthy(out.value) THEN "Building"
                        ELSE "Completed"]
    /\ UNCHANGED <<flow, reviewResult, journalEntry, glResponse, exportCalls,
                   postCalls, returned, error, store, uniqueVerdict,
                   reviewOutput>>
    /\ UNCHANGED ledgerVars

\* Variant of HumanReview: the step returns the candidate it was given, marked
\* approved, instead of the reviewer's output.
HumanReview_keeps_candidate(r) ==
    /\ flow[r] = "process_invoice"
    /\ pc[r] = "AwaitingHumanReview"
    /\ \E output \in InvoiceDataReviewed :
           LET out == maybe_approve_resume(output)
           IN  /\ reviewResult' = [reviewResult EXCEPT ![r] =
                                      IF output.approved THEN "Approved" ELSE "Rejected"]
               /\ invoice' = IF out.kind = "raise" THEN invoice
                             ELSE [invoice EXCEPT ![r] = WithApproved(invoice[r], TRUE)]
               /\ reviewOutput' = IF out.kind = "raise" THEN reviewOutput
                                  ELSE [reviewOutput EXCEPT ![r] = output]
               /\ error' = [error EXCEPT ![r] = out.error]
               /\ pc' = [pc EXCEPT ![r] =
                            IF out.kind = "raise" THEN "Failed"
                            ELSE IF Truthy(out.value) THEN "Building"
                            ELSE "Completed"]
    /\ UNCHANGED <<flow, ruleResult, journalEntry, glResponse, exportCalls,
                   postCalls, returned, store, uniqueVerdict>>
    /\ UNCHANGED ledgerVars

\* process_invoice: the reviewer submits a complete InvoiceDataReviewed and
\* maybe_approve resumes.
HumanReview(r) ==
    /\ flow[r] = "process_invoice"
    /\ pc[r] = "AwaitingHumanReview"
    /\ \E output \in InvoiceDataReviewed :
           LET out == maybe_approve_resume(output)
           IN  /\ reviewResult' = [reviewResult EXCEPT ![r] =
                                      IF output.approved THEN "Approved" ELSE "Rejected"]
               /\ invoice' = IF out.kind = "raise" THEN invoice
                             ELSE [invoice EXCEPT ![r] = out.value]
               /\ reviewOutput' = IF out.kind = "raise" THEN reviewOutput
                                  ELSE [reviewOutput EXCEPT ![r] = output]
               /\ error' = [error EXCEPT ![r] = out.error]
               /\ pc' = [pc EXCEPT ![r] =
                            IF out.kind = "raise" THEN "Failed"
                            ELSE IF Truthy(out.value) THEN "Building"
                            ELSE "Completed"]
    /\ UNCHANGED <<flow, ruleResult, journalEntry, glResponse, exportCalls,
                   postCalls, returned, store, uniqueVerdict>>
    /\ UNCHANGED ledgerVars

\* Variant of BuildEntry: the step goes from the validation straight to the
\* post, without the export.
BuildEntry_skips_export(r) ==
    /\ pc[r] = "Building"
    /\ LET journal_entry == BuildJournalEntry(invoice[r])
       IN  IF is_balanced(journal_entry)
           THEN /\ journalEntry' = [journalEntry EXCEPT ![r] = journal_entry]
                /\ pc' = [pc EXCEPT ![r] = "Posting"]
                /\ error' = error
           ELSE /\ journalEntry' = journalEntry
                /\ pc' = [pc EXCEPT ![r] = "Failed"]
                /\ error' = [error EXCEPT ![r] = <<"Journal entry is not balanced!">>]
    /\ UNCHANGED <<flow, invoice, ruleResult, reviewResult, glResponse, exportCalls,
                   postCalls, returned, store, uniqueVerdict,
                   reviewOutput>>
    /\ UNCHANGED ledgerVars

\* write_invoice_to_general_ledger: builds the entry and validates it.
BuildEntry(r) ==
    /\ pc[r] = "Building"
    /\ LET journal_entry == BuildJournalEntry(invoice[r])
       IN  IF is_balanced(journal_entry)
           THEN /\ journalEntry' = [journalEntry EXCEPT ![r] = journal_entry]
                /\ pc' = [pc EXCEPT ![r] = "Exporting"]
                /\ error' = error
           ELSE /\ journalEntry' = journalEntry
                /\ pc' = [pc EXCEPT ![r] = "Failed"]
                /\ error' = [error EXCEPT ![r] = <<"Journal entry is not balanced!">>]
    /\ UNCHANGED <<flow, invoice, ruleResult, reviewResult, glResponse, exportCalls,
                   postCalls, returned, store, uniqueVerdict,
                   reviewOutput>>
    /\ UNCHANGED ledgerVars

\* Variant of ExportWorkbook: the export also writes the timezone-stripped
\* date it computed for the spreadsheet back into the entry.
ExportWorkbook_rewrites_date(r) ==
    /\ pc[r] = "Exporting"
    /\ LET excel_file == create_journal_entry_excel(journalEntry[r])
       IN  journalEntry' = [journalEntry EXCEPT
                               ![r].workbook = excel_file,
                               ![r].entry_date = <<"naive", journalEntry[r].entry_date>>]
    /\ exportCalls' = [exportCalls EXCEPT ![r] = @ + 1]
    /\ pc' = [pc EXCEPT ![r] = "Posting"]
    /\ UNCHANGED <<flow, invoice, ruleResult, reviewResult, glResponse, postCalls,
                   returned, error, store, uniqueVerdict,
                   reviewOutput>>
    /\ UNCHANGED ledgerVars

\* write_invoice_to_general_ledger: the workbook is created and attached.
ExportWorkbook(r) ==
    /\ pc[r] = "Exporting"
    /\ LET excel_file == create_journal_entry_excel(journalEntry[r])
       IN  journalEntry' = [journalEntry EXCEPT ![r].workbook = excel_file]
    /\ exportCalls' = [exportCalls EXCEPT ![r] = @ + 1]
    /\ pc' = [pc EXCEPT ![r] = "Posting"]
    /\ UNCHANGED <<flow, invoice, ruleResult, reviewResult, glResponse, postCalls,
                   returned, error, store, uniqueVerdict,
                   reviewOutput>>
    /\ UNCHANGED ledgerVars

\* write_invoice_to_general_ledger: create_journal_entry_excel raises (the
\* workbook cannot be written or uploaded); nothing catches the exception.
ExportWorkbookFails(r) ==
    /\ pc[r] = "Exporting"
    /\ exportCalls' = [exportCalls EXCEPT ![r] = @ + 1]
    /\ pc' = [pc EXCEPT ![r] = "Failed"]
    /\ error' = [error EXCEPT ![r] = <<"ExportFailed">>]
    /\ UNCHANGED <<flow, invoice, ruleResult, reviewResult, journalEntry, glResponse,
                   postCalls, returned, store, uniqueVerdict,
                   reviewOutput>>
    /\ UNCHANGED ledgerVars

\* Variant of PostEntry: the entry is posted a second time before the
\* response is looked at.
PostEntry_retry(r) ==
    /\ pc[r] = "Posting"
    /\ LET gl_client == MockGeneralLedgerClient
           api_response == post_journal_entry(gl_client, journalEntry[r]).response
       IN  /\ glResponse' = [glResponse EXCEPT ![r] = api_response]
           /\ IF postCalls[r] = 0
              THEN /\ pc' = pc
                   /\ error' = error
                   /\ returned' = returned
              ELSE IF ~api_response.success
              THEN /\ pc' = [pc EXCEPT ![r] = "Failed"]
                   /\ error' = [error EXCEPT ![r] =
                                   <<"Failed to post journal entry: ">> \o api_response.message]
                   /\ returned' = returned
              ELSE /\ pc' = [pc EXCEPT ![r] = "Completed"]
                   /\ error' = error
                   /\ returned' = [returned EXCEPT ![r] = <<journalEntry[r]>>]
    /\ postCalls' = [postCalls EXCEPT ![r] = @ + 1]
    /\ UNCHANGED <<flow, invoice, ruleResult, reviewResult, journalEntry, exportCalls,
                   store, uniqueVerdict,
                   reviewOutput>>
    /\ UNCHANGED ledgerVars

\* write_invoice_to_general_ledger: a fresh client posts the entry; the
\* response is checked and the entry returned.
PostEntry(r) ==
    /\ pc[r] = "Posting"
    /\ LET gl_client == MockGeneralLedgerClient
           api_response == post_journal_entry(gl_client, journalEntry[r]).response
           out == check_api_response(api_response, journalEntry[r])
       IN  /\ glResponse' = [glResponse EXCEPT ![r] = api_response]
           /\ IF out.kind = "raise"
              THEN /\ pc' = [pc EXCEPT ![r] = "Failed"]
                   /\ error' = [error EXCEPT ![r] = out.error]
                   /\ returned' = returned
              ELSE /\ pc' = [pc EXCEPT ![r] = "Completed"]
                   /\ error' = error
                   /\ returned' = [returned EXCEPT ![r] = <<out.value>>]
    /\ postCalls' = [postCalls EXCEPT ![r] = @ + 1]
    /\ UNCHANGED <<flow, invoice, ruleResult, reviewResult, journalEntry, exportCalls,
                   store, uniqueVerdict, reviewOutput>>
    /\ UNCHANGED ledgerVars

\* process_invoice_with_entity: verify_unique_invoice_step and the workflow's
\* `if unique_invoice.approved:`.
VerifyUniqueInvoice(r) ==
    /\ flow[r] = "process_invoice_with_entity"
    /\ pc[r] = "DuplicateCheck"
    /\ LET unique_invoice == verify_unique_invoice_step(invoice[r], store)
       IN  /\ uniqueVerdict' = [uniqueVerdict EXCEPT ![r] =
                                    IF unique_invoice.approved THEN "Unique" ELSE "Duplicate"]
           /\ pc' = [pc EXCEPT ![r] =
                        IF unique_invoice.approved THEN "Approving" ELSE "Completed"]
    /\ store' = verify_unique_invoice_store(invoice[r], store)
    /\ UNCHANGED <<flow, invoice, ruleResult, reviewResult, journalEntry, glResponse,
                   exportCalls, postCalls, returned, error, reviewOutput>>
    /\ UNCHANGED ledgerVars

\* process_invoice_with_entity: maybe_approve up to its return or suspension.
EntityMaybeApprove(r) ==
    /\ flow[r] = "process_invoice_with_entity"
    /\ pc[r] = "Approving"
    /\ LET out == entity_maybe_approve_rule(invoice[r])
       IN  /\ ruleResult' = [ruleResult EXCEPT ![r] = RuleOutcome(out.rule)]
           /\ IF out.kind = "await_human"
              THEN /\ pc' = [pc EXCEPT ![r] = "AwaitingHumanReview"]
                   /\ returned' = returned
              ELSE /\ pc' = [pc EXCEPT ![r] = "Completed"]
                   /\ returned' = [returned EXCEPT ![r] = <<out.value>>]
    /\ UNCHANGED <<flow, invoice, reviewResult, journalEntry, glResponse, exportCalls,
                   postCalls, error, store, uniqueVerdict,
                   reviewOutput>>
    /\ UNCHANGED ledgerVars

\* process_invoice_with_entity: the reviewer submits a complete Invoice, which
\* the workflow returns.
EntityHumanReview(r) ==
    /\ flow[r] = "process_invoice_with_entity"
    /\ pc[r] = "AwaitingHumanReview"
    /\ \E output \in EntityInvoice :
           LET out == entity_maybe_approve_resume(output)
           IN  /\ invoice' = [invoice EXCEPT ![r] = out.value]
               /\ reviewOutput' = [reviewOutput EXCEPT ![r] = output]
               /\ returned' = [returned EXCEPT ![r] = <<out.value>>]
    /\ reviewResult' = [reviewResult EXCEPT ![r] = "Returned"]
    /\ pc' = [pc EXCEPT ![r] = "Completed"]
    /\ UNCHANGED <<flow, ruleResult, journalEntry, glResponse, exportCalls,
                   postCalls, error, store, uniqueVerdict>>
    /\ UNCHANGED ledgerVars

Next ==
    \E r \in Runs :
        \/ ExtractInvoice(r)
        \/ ExtractInvoiceFails(r)
        \/ MaybeApprove(r)
        \/ HumanReview(r)
        \/ BuildEntry(r)
        \/ ExportWorkbook(r)
        \/ ExportWorkbookFails(r)
        \/ PostEntry(r)
        \/ VerifyUniqueInvoice(r)
        \/ EntityMaybeApprove(r)
        \/ EntityHumanReview(r)

Spec == Init /\ [][Next]_vars

\* ------------------------------------------- one ledger client, many posts
\* An unbalanced entry: the credit side of a built entry is missing.
WithoutCredit(je) == [je EXCEPT !.lines[2].credit = Fin(0)]

\* The journal entries handed to post_journal_entry.
PostableEntries ==
    LET built == {BuildJournalEntry(WithApproved(inv, TRUE)) : inv \in InvoiceData}
    IN  built \cup {WithoutCredit(je) : je \in built}

\* gl_client.post_journal_entry(journal_entry) on a client that is kept, and
\* the caller's check of the response.
ClientPost(je) ==
    /\ glCalls < MaxClientCalls
    /\ LET res == post_journal_entry(glClient, je)
       IN  /\ glClient' = res.client
           /\ glLast' = res.response
           /\ glRejected' = IF res.response.success THEN glRejected ELSE glRejected + 1
           /\ glOutcome' = check_api_response(res.response, je)
           /\ glIssued' = IF res.response.success
                          THEN Append(glIssued, res.response.entry_id)
                          ELSE glIssued
    /\ glCalls' = glCalls + 1
    /\ glEntry' = je
    /\ UNCHANGED pipelineVars

LedgerNext == \E je \in PostableEntries : ClientPost(je)

LedgerSpec == Init /\ [][LedgerNext]_vars


\* ------------------------------------------------------ claim vocabulary
\* The invoice numbers the invoice table holds.
NumbersInStore == {row.invoice_number : row \in store}

\* Sum of a sequence of finite floats, as an integer number of hundredths.
RECURSIVE HundredthsSum(_)
HundredthsSum(s) ==
    IF s = <<>> THEN 0 ELSE HundredthsSum(SubSeq(s, 1, Len(s) - 1)) + s[Len(s)].v

AllFinite(s) == \A i \in 1..Len(s) : s[i].k = "fin"

\* Total debits and total credits differ by less than 0.01.
DiffersByLessThanEpsilon(je) ==
    /\ AllFinite(Debits(je))
    /\ AllFinite(Credits(je))
    /\ HundredthsSum(Debits(je)) - HundredthsSum(Credits(je)) < Epsilon
    /\ HundredthsSum(Credits(je)) - HundredthsSum(Debits(je)) < Epsilon

ReviewRejectedMessage == <<"Invoice was not approved by human reviewer">>

PastTheGate == {"Building", "Exporting", "Posting", "Completed"}

\* The threshold the run's approval rule compares with.
ThresholdOf(r) == IF flow[r] = "process_invoice" THEN Threshold ELSE EntityThreshold

\* --------------------------------------------------------------- claims
\* C1: post_journal_entry is called only for an invoice approved by the rule
\* or by the reviewer; after a reviewer's approved=false no posting call is
\* made in that run.
C1_PostOnlyAfterApproval ==
    \A r \in Runs :
        /\ (postCalls[r] > 0 \/ pc[r] = "Posting") =>
               (ruleResult[r] = "Approved" \/ reviewResult[r] = "Approved")
        /\ reviewResult[r] = "Rejected" =>
               (postCalls[r] = 0 /\ glResponse[r] = NoResponse /\ pc[r] # "Posting")

C1_Witness ==
    \E r1, r2 \in Runs :
        /\ postCalls[r1] > 0 /\ ruleResult[r1] = "Denied" /\ reviewResult[r1] = "Approved"
        /\ reviewResult[r2] = "Rejected" /\ pc[r2] = "Failed"

\* C2: the rule approves every amount strictly below the threshold and denies
\* every amount at or above it; amount == threshold is denied.  (An approved
\* invoice keeps its amount; a denied one keeps it until it is reviewed.)
C2_RuleStrictThreshold ==
    \A r \in Runs :
        /\ ruleResult[r] = "Approved" =>
               /\ invoice[r].amount.k = "fin"
               /\ invoice[r].amount.v < ThresholdOf(r)
        /\ (ruleResult[r] = "Denied" /\ reviewResult[r] = "NotReviewed") =>
               (invoice[r].amount.k = "fin" => invoice[r].amount.v >= ThresholdOf(r))
        /\ (ruleResult[r] # "NotEvaluated" /\ reviewResult[r] = "NotReviewed"
                /\ invoice[r].amount.k = "fin") =>
               (ruleResult[r] = "Approved" <=> invoice[r].amount.v < ThresholdOf(r))

C2_Witness ==
    \E r1, r2 \in Runs :
        /\ ruleResult[r1] = "Denied" /\ reviewResult[r1] = "NotReviewed"
        /\ invoice[r1].amount = Fin(Threshold)
        /\ ruleResult[r2] = "Approved" /\ invoice[r2].amount = Fin(Threshold - 1)

\* C3: an extracted invoice whose number is already in the invoice store never
\* reaches the approval rule, the review or the posting: the run ends before.
C3_DuplicateShortCircuits ==
    \A r \in Runs :
        (/\ invoice[r] # NoInvoice
         /\ reviewResult[r] = "NotReviewed"
         /\ invoice[r].invoice_number \in NumbersInStore)
            => /\ ruleResult[r] = "NotEvaluated"
               /\ pc[r] \in {"DuplicateCheck", "Completed", "Failed"}
               /\ postCalls[r] = 0

\* C4: every entry handed to the workbook export or to the ledger, and every
\* entry the ledger accepted, has total debits and credits differing by less
\* than 0.01.
C4_ExportedOrPostedIsBalanced ==
    \A r \in Runs :
        (\/ pc[r] \in {"Exporting", "Posting"}
         \/ exportCalls[r] > 0
         \/ postCalls[r] > 0
         \/ glResponse[r] # NoResponse)
            => /\ journalEntry[r] # NoEntry
               /\ DiffersByLessThanEpsilon(journalEntry[r])

C4_Witness ==
    \E r1, r2 \in Runs :
        /\ glResponse[r1] # NoResponse /\ glResponse[r1].success
        /\ journalEntry[r1].workbook # NoWorkbook
        /\ pc[r2] = "Failed" /\ error[r2] = <<"Journal entry is not balanced!">>
        /\ exportCalls[r2] = 0 /\ postCalls[r2] = 0

\* C5: no two successful postings, of any runs, receive the same entry id.
C5_EntryIdsUnique ==
    \A r1, r2 \in Runs :
        (/\ r1 # r2
         /\ glResponse[r1] # NoResponse /\ glResponse[r1].success
         /\ glResponse[r2] # NoResponse /\ glResponse[r2].success)
            => glResponse[r1].entry_id # glResponse[r2].entry_id

\* C6: a reviewer's approved=false ends the run in the failure raised for a
\* rejected review, never in a normal completion with an empty or unapproved
\* result; a reviewed run is past the review gate only with approved = true.
C6_RejectionIsTerminalFailure ==
    \A r \in Runs :
        /\ reviewResult[r] = "Rejected" =>
               /\ pc[r] = "Failed"
               /\ error[r] = ReviewRejectedMessage
               /\ returned[r] = <<>>
        /\ (flow[r] = "process_invoice" /\ reviewResult[r] # "NotReviewed"
                /\ pc[r] \in PastTheGate) =>
               /\ reviewResult[r] = "Approved"
               /\ invoice[r] # None
               /\ invoice[r].approved
        /\ (flow[r] = "process_invoice" /\ pc[r] = "Completed") => returned[r] # <<>>

C6_Witness ==
    \E r1, r2 \in Runs :
        /\ reviewResult[r1] = "Rejected" /\ pc[r1] = "Failed"
        /\ reviewResult[r2] = "Approved" /\ pc[r2] = "Building"

\* C7: a run awaits the human review only after the rule denied the invoice,
\* and a run whose rule approved never awaits a human: it goes on to building
\* and posting (process_invoice) or returns (process_invoice_with_entity).
C7_ReviewOnlyAfterDenial ==
    \A r \in Runs :
        /\ pc[r] = "AwaitingHumanReview" => ruleResult[r] = "Denied"
        /\ reviewResult[r] # "NotReviewed" => ruleResult[r] = "Denied"
        /\ ruleResult[r] = "Approved" =>
               /\ reviewResult[r] = "NotReviewed"
               /\ pc[r] \in (IF flow[r] = "process_invoice"
                             THEN {"Building", "Exporting", "Posting", "Completed", "Failed"}
                             ELSE {"Completed"})

C7_Witness ==
    \E r1, r2 \in Runs :
        /\ pc[r1] = "AwaitingHumanReview" /\ ruleResult[r1] = "Denied"
        /\ flow[r2] = "process_invoice" /\ ruleResult[r2] = "Approved"
        /\ pc[r2] = "Completed" /\ postCalls[r2] = 1

\* C8: the entry built for an approved invoice of amount A has exactly two
\* lines, one with debit A and credit 0 and one with debit 0 and credit A, and
\* its totals differ by less than 0.01.
C8_TwoBalancedLines ==
    \A r \in Runs :
        journalEntry[r] # NoEntry =>
            LET A == invoice[r].amount
                lines == journalEntry[r].lines
            IN  /\ invoice[r].approved
                /\ Len(lines) = 2
                /\ \E i, j \in 1..2 :
                       /\ i # j
                       /\ lines[i].debit = A /\ lines[i].credit = Fin(0)
                       /\ lines[j].debit = Fin(0) /\ lines[j].credit = A
                /\ DiffersByLessThanEpsilon(journalEntry[r])

C8_Witness ==
    \E r \in Runs :
        /\ journalEntry[r] # NoEntry
        /\ invoice[r].amount = Fin(Threshold)
        /\ journalEntry[r].lines[1].debit = Fin(Threshold)
        /\ journalEntry[r].lines[2].credit = Fin(Threshold)

\* C9: every entry built and posted has exactly one line with a positive debit
\* and zero credit and exactly one with a positive credit and zero debit, no
\* line has a negative debit or credit, and no invoice with a negative amount
\* reaches the builder.
C9_PositiveTwoLineEntry ==
    \A r \in Runs :
        /\ pc[r] = "Building" => ~FLt(invoice[r].amount, Fin(0))
        /\ journalEntry[r] # NoEntry =>
               LET lines == journalEntry[r].lines
                   DebitLines == {i \in 1..Len(lines) :
                                     FGt(lines[i].debit, Fin(0)) /\ lines[i].credit = Fin(0)}
                   CreditLines == {i \in 1..Len(lines) :
                                      FGt(lines[i].credit, Fin(0)) /\ lines[i].debit = Fin(0)}
               IN  /\ Cardinality(DebitLines) = 1
                   /\ Cardinality(CreditLines) = 1
                   /\ \A i \in 1..Len(lines) :
                          /\ ~FLt(lines[i].debit, Fin(0))
                          /\ ~FLt(lines[i].credit, Fin(0))

\* C10: a run calls post_journal_entry at most once, and a response with
\* success=false ends the run in failure after that single call.
C10_NoAutomaticRetry ==
    \A r \in Runs :
        /\ postCalls[r] <= 1
        /\ pc[r] = "Posting" => postCalls[r] = 0
        /\ (glResponse[r] # NoResponse /\ ~glResponse[r].success) =>
               (pc[r] = "Failed" /\ postCalls[r] = 1)

C10_Witness ==
    \E r \in Runs : postCalls[r] = 1 /\ pc[r] = "Completed" /\ glResponse[r].success

\* The client's last call was a post of an entry whose totals are not within
\* 0.01 of each other.
LastPostWasUnbalanced == glCalls >= 1 /\ ~DiffersByLessThanEpsilon(glEntry)

\* C11: a post that the ledger client rejects returns an empty entry_id and
\* leaves the client's entry_counter as it was, so the ids the client hands
\* out afterwards are those it would have handed out without the rejected
\* attempts.
C11_RejectedPostLeavesClient ==
    [][glCalls' = glCalls + 1 =>
          /\ ~DiffersByLessThanEpsilon(glEntry') => glLast'.entry_id = <<>>
          /\ glLast'.entry_id = <<>> => glClient' = glClient
          /\ glClient'.entry_counter =
                 InitialEntryCounter + (glCalls' - glRejected')]_vars

C11_Witness ==
    /\ glRejected >= 1
    /\ glLast.success
    /\ glLast.entry_id = <<"JE-", InitialEntryCounter + 1>>

\* C12: for an unbalanced journal entry post_journal_entry hands back a
\* response with success = False and a message; it does not raise.
C12_UnbalancedPostReturnsFailure ==
    LastPostWasUnbalanced =>
        /\ DOMAIN glLast = {"success", "entry_id", "message"}
        /\ ~glLast.success
        /\ glLast.message # <<>>

C12_Witness ==
    /\ LastPostWasUnbalanced
    /\ glLast.message = <<"Journal entry is not balanced">>

\* C13: a failed workbook export does not fail the run.
C13_ExportFailureIsNonFatal ==
    \A r \in Runs : exportCalls[r] >= 1 /\ error[r] = <<"ExportFailed">>
                       => pc[r] # "Failed"

\* The journal entry without the workbook attached by the export.
WithoutWorkbook(je) == [je EXCEPT !.workbook = NoWorkbook]

\* Run r went through the human review gate and was approved there.
ResumedApproved(r) ==
    /\ flow[r] = "process_invoice"
    /\ ruleResult[r] = "Denied"
    /\ reviewResult[r] = "Approved"

\* C15: the journal entry of a run resumed from human review is determined by
\* the reviewer's output alone, however the other runs' steps interleave with
\* the suspension: it is the entry built from the reviewed fields, and at
\* every stage it equals, with its posting response and result, that of an
\* auto-approved run carrying the same fields.
C15_ResumeBuildsReviewedEntry ==
    \A r \in Runs :
        ResumedApproved(r) /\ journalEntry[r] # NoEntry =>
            /\ WithoutWorkbook(journalEntry[r]).invoice_number = reviewOutput[r].invoice_number
            /\ journalEntry[r].vendor = reviewOutput[r].vendor
            /\ journalEntry[r].entry_date = reviewOutput[r].invoice_date
            /\ journalEntry[r].lines[1].debit = reviewOutput[r].amount
            /\ journalEntry[r].lines[2].credit = reviewOutput[r].amount
            /\ \A r2 \in Runs :
                   /\ flow[r2] = "process_invoice"
                   /\ ruleResult[r2] = "Approved"
                   /\ invoice[r2] = reviewOutput[r]
                   /\ pc[r2] = pc[r]
                   /\ journalEntry[r2] # NoEntry
                   => /\ journalEntry[r2] = journalEntry[r]
                      /\ glResponse[r2] = glResponse[r]
                      /\ returned[r2] = returned[r]

C15_Witness ==
    \E r, r2 \in Runs :
        /\ ResumedApproved(r) /\ ruleResult[r2] = "Approved"
        /\ flow[r2] = "process_invoice"
        /\ invoice[r2] = reviewOutput[r]
        /\ pc[r] = "Completed" /\ pc[r2] = "Completed"
        /\ postCalls[r] = 1 /\ postCalls[r2] = 1

Checked(r) ==
    /\ flow[r] = "process_invoice_with_entity"
    /\ uniqueVerdict[r] # "NotChecked"
    /\ reviewResult[r] = "NotReviewed"

\* C17: the duplicate check reports a duplicate exactly when the store holds
\* a record with the invoice's number.
C17_DuplicateIffStored ==
    \A r \in Runs :
        Checked(r) =>
            (uniqueVerdict[r] = "Duplicate"
                 <=> invoice[r].invoice_number \in NumbersInStore)

Contains(t, s) ==
    \E i \in 1..(Len(t) - Len(s) + 1) : SubSeq(t, i, i + Len(s) - 1) = s

\* C20: when the ledger answers success = False, the posting step raises an
\* error that contains the ledger's message and returns no journal entry.
C20_PostingFailureCarriesCause ==
    glCalls >= 1 /\ ~glLast.success =>
        /\ glOutcome.kind = "raise"
        /\ glOutcome.value = None
        /\ glLast.message # <<>>
        /\ Contains(glOutcome.error, glLast.message)

C20_Witness ==
    /\ glCalls >= 1
    /\ glOutcome.kind = "raise"
    /\ glOutcome.error = <<"Failed to post journal entry: ",
                           "Journal entry is not balanced">>

\* C21: once the builder has constructed a run's journal entry, every later
\* step of the run leaves entry_date, invoice_number, vendor, description and
\* the lines as they were; only the workbook reference changes, and the entry
\* the run returns is the entry that was exported and posted.
C21_OnlyWorkbookChanges ==
    [][\A r \in Runs :
          /\ journalEntry[r] # NoEntry =>
                 /\ journalEntry'[r] # NoEntry
                 /\ journalEntry'[r].entry_date = journalEntry[r].entry_date
                 /\ journalEntry'[r].invoice_number = journalEntry[r].invoice_number
                 /\ journalEntry'[r].vendor = journalEntry[r].vendor
                 /\ journalEntry'[r].description = journalEntry[r].description
                 /\ journalEntry'[r].lines = journalEntry[r].lines
          /\ (/\ flow[r] = "process_invoice"
              /\ returned[r] = <<>>
              /\ returned'[r] # <<>>) => returned'[r] = <<journalEntry[r]>>
          /\ (/\ journalEntry[r] = NoEntry
              /\ journalEntry'[r] # NoEntry) =>
                 /\ journalEntry'[r].workbook = NoWorkbook
                 /\ journalEntry'[r].entry_date = invoice[r].invoice_date
                 /\ journalEntry'[r].invoice_number = invoice[r].invoice_number
                 /\ journalEntry'[r].vendor = invoice[r].vendor]_vars

C21_Witness ==
    \E r \in Runs :
        /\ flow[r] = "process_invoice"
        /\ returned[r] # <<>>
        /\ returned[r][1].workbook # NoWorkbook
        /\ returned[r][1].entry_date = invoice[r].invoice_date
        /\ returned[r][1].lines[1].debit = invoice[r].amount

\* C22: on one client instance entry_counter starts at 1000 and never
\* decreases, a successful post raises it by exactly 1 and a rejected post
\* leaves it alone, the n-th successful post returns "JE-(1000+n)", and the
\* ids the instance has handed out are pairwise distinct.
C22_CounterAndIdsOfOneClient ==
    /\ [](/\ glCalls = 0 => glClient.entry_counter = 1000
          /\ glClient.entry_counter >= 1000
          /\ \A n \in 1..Len(glIssued) : glIssued[n] = <<"JE-", 1000 + n>>
          /\ \A m, n \in 1..Len(glIssued) : m # n => glIssued[m] # glIssued[n])
    /\ [][glCalls' = glCalls + 1 =>
             /\ glClient'.entry_counter >= glClient.entry_counter
             /\ glLast'.success =>
                    glClient'.entry_counter = glClient.entry_counter + 1
             /\ ~glLast'.success =>
                    glClient'.entry_counter = glClient.entry_counter]_vars

C22_Witness ==
    /\ Len(glIssued) = 2
    /\ glRejected >= 1
    /\ glIssued[2] = <<"JE-", 1002>>
    /\ glClient.entry_counter = 1002

\* Run r of process_invoice has returned a journal entry.
ReturnedEntry(r) == flow[r] = "process_invoice" /\ returned[r] # <<>>

\* C23: a journal entry returned by process_invoice is balanced, carries a
\* workbook reference and was accepted by the ledger with success = True in
\* the same run; the run exported once and posted once, and the post came
\* after the export.
C23_ReturnedEntryWasExportedThenPosted ==
    /\ [](\A r \in Runs :
              ReturnedEntry(r) =>
                  /\ pc[r] = "Completed"
                  /\ DiffersByLessThanEpsilon(returned[r][1])
                  /\ returned[r][1].workbook # NoWorkbook
                  /\ exportCalls[r] = 1
                  /\ postCalls[r] = 1
                  /\ glResponse[r] # NoResponse
                  /\ glResponse[r].success
                  /\ glResponse[r].entry_id # <<>>)
    /\ [][\A r \in Runs :
             flow[r] = "process_invoice" =>
                 /\ exportCalls'[r] # exportCalls[r] =>
                        /\ exportCalls[r] = 0 /\ exportCalls'[r] = 1
                        /\ postCalls[r] = 0 /\ postCalls'[r] = 0
                 /\ postCalls'[r] # postCalls[r] =>
                        /\ postCalls[r] = 0 /\ postCalls'[r] = 1
                        /\ exportCalls[r] = 1 /\ exportCalls'[r] = 1]_vars

C23_Witness ==
    \E r \in Runs :
        /\ ReturnedEntry(r)
        /\ exportCalls[r] = 1 /\ postCalls[r] = 1
        /\ returned[r][1].workbook =
               <<"journal_entry_", invoice[r].invoice_number, "_",
                 invoice[r].invoice_date, ".xlsx">>
        /\ glResponse[r].success


====
